---- MODULE Spec2Model ----
(***************************************************************************)
(* Model of the Backend Client (class ApiClient) of the Scribe frontend.   *)
(* Text is a sequence of characters (one-character strings); a response    *)
(* stream is a sequence of bytes.  ASCII bytes are written as their        *)
(* character, the two bytes "C3" "A9" are the UTF-8 encoding of the        *)
(* character "U+00E9".                                                     *)
(***************************************************************************)
EXTENDS Integers, Sequences, FiniteSets, Bags, TLC

\* one call of a Backend Client method
VARIABLES op, pc, resp, handlers, stream, pos, pending, buffer, nblocks,
          calls, thrown, result, requests

\* the caller of transcribeStream
VARIABLES abandoned

\* the Index page with its AudioRecorder, TranscriptEditor, SummaryPanel and
\* SettingsDialog
VARIABLES isConnected, audioFile, transcript, summary, isTranscribing,
          isSummarizing, isCleaning, uploadedFile, open, loading, saving,
          localSettings, inflight, shown, settled, unhandled, language,
          diarization

\* the legacy Index page that keeps the model settings in localStorage
VARIABLES stored, settings

\* the recording AudioRecorder: its state and refs, the getUserMedia calls
\* awaited, the MediaRecorder objects and interval timers it has created,
\* and the numbers of stop() calls and of files given to onFileSelect
VARIABLES isRecording, recordingTime, mediaRecorderRef, timerRef,
          permissionRequests, mediaRecorders, intervals, startClicks, stopped,
          delivered

apiVars == <<op, pc, resp, handlers, stream, pos, pending, buffer, nblocks,
             calls, thrown, result, requests>>

callerVars == <<abandoned>>

pageVars == <<isConnected, audioFile, transcript, summary, isTranscribing,
              isSummarizing, isCleaning, uploadedFile, open, loading, saving,
              localSettings, inflight, shown, settled, unhandled, language,
              diarization>>

storeVars == <<stored, settings>>

recorderVars == <<isRecording, recordingTime, mediaRecorderRef, timerRef,
                  permissionRequests, mediaRecorders, intervals, startClicks,
                  stopped, delivered>>

vars == <<apiVars, callerVars, pageVars, storeVars, recorderVars>>

(***************************************************************************)
(* Bounds of the model.                                                    *)
(***************************************************************************)
MaxBlocks == 2

MaxChunk == 3

MaxStreamBytes == 56

\* start clicks of the recorder
MaxStarts == 3

\* seconds the elapsed-time display counts
MaxRecordingTime == 2

(***************************************************************************)
(* Characters and string helpers (JavaScript String methods).              *)
(***************************************************************************)
NL == "\n"

QUOTE == "\""

EACUTE == "U+00E9"

REPLACEMENT == "U+FFFD"

IsSpace(c) == c \in {" ", "\n", "\r", "\t"}

Slice(s, from) == SubSeq(s, from + 1, Len(s))

SliceTo(s, from, to) == SubSeq(s, from + 1, to)

StartsWith(s, prefix) ==
    /\ Len(s) >= Len(prefix)
    /\ SubSeq(s, 1, Len(prefix)) = prefix

\* String.prototype.indexOf: 0-based index of the first occurrence, or -1
IndexOf(s, pat) ==
    LET hits == {i \in 0..(Len(s) - Len(pat)) : \A k \in 1..Len(pat) : s[i + k] = pat[k]}
    IN IF hits = {} THEN -1 ELSE CHOOSE i \in hits : \A j \in hits : i <= j

RECURSIVE TrimStart(_)
TrimStart(s) ==
    IF s # <<>> /\ IsSpace(Head(s)) THEN TrimStart(Tail(s)) ELSE s

RECURSIVE TrimEnd(_)
TrimEnd(s) ==
    IF s # <<>> /\ IsSpace(s[Len(s)]) THEN TrimEnd(SubSeq(s, 1, Len(s) - 1)) ELSE s

Trim(s) == TrimEnd(TrimStart(s))

\* String.prototype.split("\n")
RECURSIVE SplitLines(_)
SplitLines(s) ==
    LET i == IndexOf(s, <<NL>>)
    IN IF i = -1 THEN <<s>>
       ELSE <<SliceTo(s, 0, i)>> \o SplitLines(Slice(s, i + 1))

(***************************************************************************)
(* TextDecoder (UTF-8).  decoder.decode(value, {stream: true}) keeps an    *)
(* incomplete multi-byte sequence for the next call.                       *)
(***************************************************************************)
IsLead(b) == b = "C3"

IsCont(b) == b = "A9"

SKIP == "skip"

\* the decoder's output for byte i of the input bs (the bytes kept from the
\* previous call followed by the new ones); an incomplete sequence at the
\* end is kept when streaming and replaced when not
DecodeAt(bs, i, streaming) ==
    IF IsLead(bs[i])
    THEN IF i = Len(bs) THEN (IF streaming THEN SKIP ELSE REPLACEMENT)
         ELSE IF IsCont(bs[i + 1]) THEN EACUTE ELSE REPLACEMENT
    ELSE IF IsCont(bs[i])
         THEN IF i > 1 /\ IsLead(bs[i - 1]) THEN SKIP ELSE REPLACEMENT
         ELSE bs[i]

NotSkip(c) == c # SKIP

DecodeBytes(pend, bytes, streaming) ==
    LET bs == pend \o bytes
        out == [i \in 1..Len(bs) |-> DecodeAt(bs, i, streaming)]
    IN [text |-> SelectSeq(out, NotSkip),
        pending |-> IF streaming /\ bs # <<>> /\ IsLead(bs[Len(bs)])
                    THEN <<bs[Len(bs)]>> ELSE <<>>]

DecodeNoStream(pend, value) == DecodeBytes(<<>>, value, FALSE)

\* decoder.decode(value, { stream: true })
Decode(pend, value) == DecodeBytes(pend, value, TRUE)

RECURSIVE Encode(_)
Encode(text) ==
    IF text = <<>> THEN <<>>
    ELSE (IF Head(text) = EACUTE THEN <<"C3", "A9">> ELSE <<Head(text)>>)
         \o Encode(Tail(text))

(***************************************************************************)
(* JSON.parse on the grammar the payloads use: null, non-negative integer, *)
(* string without escapes, object.  Values are records tagged by t.        *)
(***************************************************************************)
Digits == {"0", "1", "2", "3", "4", "5", "6", "7", "8", "9"}

DigitVal(c) ==
    CASE c = "0" -> 0 [] c = "1" -> 1 [] c = "2" -> 2 [] c = "3" -> 3
      [] c = "4" -> 4 [] c = "5" -> 5 [] c = "6" -> 6 [] c = "7" -> 7
      [] c = "8" -> 8 [] c = "9" -> 9

JNull == [t |-> "null"]

JNum(n) == [t |-> "num", n |-> n]

JStr(s) == [t |-> "str", s |-> s]

JObj(members) == [t |-> "obj", m |-> members]

JUndefined == [t |-> "undefined"]

Fail == [ok |-> FALSE, v |-> JUndefined, rest |-> <<>>]

Ok(v, rest) == [ok |-> TRUE, v |-> v, rest |-> rest]

RECURSIVE ParseDigits(_, _)
ParseDigits(s, acc) ==
    IF s # <<>> /\ Head(s) \in Digits
    THEN ParseDigits(Tail(s), acc * 10 + DigitVal(Head(s)))
    ELSE Ok(JNum(acc), s)

ParseNumber(s) ==
    IF Head(s) = "0" THEN Ok(JNum(0), Tail(s)) ELSE ParseDigits(s, 0)

ParseString(s) ==
    LET body == Tail(s)
        i == IndexOf(body, <<QUOTE>>)
    IN IF i = -1 \/ \E k \in 1..i : body[k] \in {"\\", "\n", "\r", "\t"}
       THEN Fail
       ELSE Ok(JStr(SliceTo(body, 0, i)), Slice(body, i + 1))

RECURSIVE ParseValue(_)
RECURSIVE ParseMembers(_, _)
ParseValue(s0) ==
    LET s == TrimStart(s0)
    IN IF s = <<>> THEN Fail
       ELSE IF StartsWith(s, <<"n", "u", "l", "l">>) THEN Ok(JNull, Slice(s, 4))
       ELSE IF Head(s) \in Digits THEN ParseNumber(s)
       ELSE IF Head(s) = QUOTE THEN ParseString(s)
       ELSE IF Head(s) = "{"
            THEN LET r == TrimStart(Tail(s))
                 IN IF r # <<>> /\ Head(r) = "}"
                    THEN Ok(JObj(<<>>), Tail(r))
                    ELSE ParseMembers(r, <<>>)
       ELSE Fail

ParseMembers(s0, acc) ==
    LET s == TrimStart(s0)
    IN IF s = <<>> \/ Head(s) # QUOTE THEN Fail
       ELSE LET k == ParseString(s)
                afterKey == TrimStart(k.rest)
            IN IF ~k.ok \/ afterKey = <<>> \/ Head(afterKey) # ":" THEN Fail
               ELSE LET val == ParseValue(Tail(afterKey))
                        afterVal == TrimStart(val.rest)
                        members == Append(acc, <<k.v.s, val.v>>)
                    IN IF ~val.ok \/ afterVal = <<>> THEN Fail
                       ELSE IF Head(afterVal) = "}" THEN Ok(JObj(members), Tail(afterVal))
                       ELSE IF Head(afterVal) = "," THEN ParseMembers(Tail(afterVal), members)
                       ELSE Fail

JSONParse(text) ==
    LET r == ParseValue(text)
    IN IF r.ok /\ TrimStart(r.rest) = <<>> THEN [ok |-> TRUE, v |-> r.v]
       ELSE [ok |-> FALSE, v |-> JUndefined]

(***************************************************************************)
(* Property access and truthiness of a decoded value (parsed.message ||).  *)
(***************************************************************************)
MESSAGE == <<"m", "e", "s", "s", "a", "g", "e">>

StreamErrorText == <<"S", "t", "r", "e", "a", "m", " ", "e", "r", "r", "o", "r">>

\* v.key: [threw] for null (TypeError), the last member named key, or undefined
GetProp(v, key) ==
    IF v.t = "null" THEN [threw |-> TRUE, v |-> JUndefined]
    ELSE IF v.t = "obj" /\ \E i \in 1..Len(v.m) : v.m[i][1] = key
         THEN LET i == CHOOSE i \in 1..Len(v.m) :
                          /\ v.m[i][1] = key
                          /\ \A j \in 1..Len(v.m) : v.m[j][1] = key => j <= i
              IN [threw |-> FALSE, v |-> v.m[i][2]]
         ELSE [threw |-> FALSE, v |-> JUndefined]

Truthy(v) ==
    CASE v.t = "undefined" -> FALSE
      [] v.t = "null" -> FALSE
      [] v.t = "num" -> v.n # 0
      [] v.t = "str" -> v.s # <<>>
      [] OTHER -> TRUE

(***************************************************************************)
(* emitEvent: one event block to at most one handler invocation.           *)
(***************************************************************************)
EVENT_PREFIX == <<"e", "v", "e", "n", "t", ":">>

DATA_PREFIX == <<"d", "a", "t", "a", ":">>

EvMessage == <<"m", "e", "s", "s", "a", "g", "e">>

EvStart == <<"s", "t", "a", "r", "t">>

EvChunk == <<"c", "h", "u", "n", "k">>

EvComplete == <<"c", "o", "m", "p", "l", "e", "t", "e">>

EvError == <<"e", "r", "r", "o", "r">>

HandlerNames == {"onStart", "onChunk", "onComplete", "onError"}

NonBlank(l) == Len(Trim(l)) > 0

BlockLines(block) == SelectSeq(SplitLines(block), NonBlank)

RECURSIVE ScanLinesFirstEvent(_, _, _)
ScanLinesFirstEvent(lines, event, data) ==
    IF lines = <<>> THEN [event |-> event, data |-> data]
    ELSE LET line == Head(lines)
         IN IF StartsWith(line, EVENT_PREFIX)
            THEN ScanLinesFirstEvent(Tail(lines),
                     IF event = EvMessage THEN Trim(Slice(line, 6)) ELSE event, data)
            ELSE IF StartsWith(line, DATA_PREFIX)
                 THEN ScanLinesFirstEvent(Tail(lines), event, data \o Trim(Slice(line, 5)))
                 ELSE ScanLinesFirstEvent(Tail(lines), event, data)

\* the for loop over the lines of a block
RECURSIVE ScanLines(_, _, _)
ScanLines(lines, event, data) ==
    IF lines = <<>> THEN [event |-> event, data |-> data]
    ELSE LET line == Head(lines)
         IN IF StartsWith(line, EVENT_PREFIX)
            THEN ScanLines(Tail(lines), Trim(Slice(line, 6)), data)
            ELSE IF StartsWith(line, DATA_PREFIX)
                 THEN ScanLines(Tail(lines), event, data \o Trim(Slice(line, 5)))
                 ELSE ScanLines(Tail(lines), event, data)

BlockFieldsDefaultObject(block) == ScanLines(BlockLines(block), EvMessage, <<"{", "}">>)

\* let event = "message"; let data = ""; and the loop
BlockFields(block) == ScanLines(BlockLines(block), EvMessage, <<>>)

\* handlers.h?.(arg): nothing when h is absent; the call is recorded, and
\* an exception of the handler leaves the try body
Invoke(st, hs, h, arg, blk) ==
    IF st.threw \/ hs[h] = "absent" THEN st
    ELSE [calls |-> Append(st.calls, [h |-> h, arg |-> arg, blk |-> blk]),
          threw |-> hs[h] = "throws"]

ErrorArgAlwaysParsed(parsed) == [threw |-> FALSE, v |-> parsed]

\* parsed.message || "Stream error"
ErrorArg(parsed) ==
    LET m == GetProp(parsed, MESSAGE)
    IN IF m.threw THEN m
       ELSE [threw |-> FALSE, v |-> IF Truthy(m.v) THEN m.v ELSE JStr(StreamErrorText)]

InvokeError(st, hs, parsed, blk) ==
    IF st.threw \/ hs["onError"] = "absent" THEN st
    ELSE LET a == ErrorArg(parsed)
         IN IF a.threw THEN [calls |-> st.calls, threw |-> TRUE]
            ELSE Invoke(st, hs, "onError", a.v, blk)

DispatchAll(event, parsed, hs, blk) ==
    LET s0 == [calls |-> <<>>, threw |-> FALSE]
        s1 == Invoke(s0, hs, "onStart", parsed, blk)
        s2 == Invoke(s1, hs, "onChunk", parsed, blk)
        s3 == Invoke(s2, hs, "onComplete", parsed, blk)
    IN InvokeError(s3, hs, parsed, blk)

\* the four if statements of the try body
Dispatch(event, parsed, hs, blk) ==
    LET s0 == [calls |-> <<>>, threw |-> FALSE]
        s1 == IF event = EvStart THEN Invoke(s0, hs, "onStart", parsed, blk) ELSE s0
        s2 == IF event = EvChunk THEN Invoke(s1, hs, "onChunk", parsed, blk) ELSE s1
        s3 == IF event = EvComplete THEN Invoke(s2, hs, "onComplete", parsed, blk) ELSE s2
    IN IF ~s3.threw /\ event = EvError THEN InvokeError(s3, hs, parsed, blk) ELSE s3

\* the try body: JSON.parse, then the dispatch
TryBody(f, hs, blk) ==
    LET p == JSONParse(f.data)
    IN IF ~p.ok THEN [calls |-> <<>>, threw |-> TRUE]
       ELSE Dispatch(f.event, p.v, hs, blk)

EmitEventNoCatch(block, hs, blk) ==
    LET f == BlockFields(block)
    IN IF f.data = <<>> THEN [calls |-> <<>>, raised |-> FALSE]
       ELSE LET r == TryBody(f, hs, blk)
            IN [calls |-> r.calls, raised |-> r.threw]

\* emitEvent(block); blk is the ordinal of the block in the stream
EmitEvent(block, hs, blk) ==
    LET f == BlockFields(block)
    IN IF f.data = <<>> THEN [calls |-> <<>>, raised |-> FALSE]
       ELSE [calls |-> TryBody(f, hs, blk).calls, raised |-> FALSE]

RECURSIVE ProcessBufferReversed(_, _, _, _)
ProcessBufferReversed(buf, hs, nblk, acc) ==
    LET idx == IndexOf(buf, <<NL, NL>>)
    IN IF idx = -1
       THEN [buffer |-> buf, calls |-> acc, nblocks |-> nblk, raised |-> FALSE]
       ELSE LET e == EmitEvent(SliceTo(buf, 0, idx), hs, nblk + 1)
            IN ProcessBufferReversed(Slice(buf, idx + 2), hs, nblk + 1, e.calls \o acc)

RECURSIVE ProcessBufferBreakOnDrop(_, _, _, _)
ProcessBufferBreakOnDrop(buf, hs, nblk, acc) ==
    LET idx == IndexOf(buf, <<NL, NL>>)
    IN IF idx = -1
       THEN [buffer |-> buf, calls |-> acc, nblocks |-> nblk, raised |-> FALSE]
       ELSE LET e == EmitEvent(SliceTo(buf, 0, idx), hs, nblk + 1)
            IN IF e.calls = <<>>
               THEN [buffer |-> Slice(buf, idx + 2), calls |-> acc,
                     nblocks |-> nblk + 1, raised |-> FALSE]
               ELSE ProcessBufferBreakOnDrop(Slice(buf, idx + 2), hs, nblk + 1,
                                             acc \o e.calls)

ProcessBufferFirstBlockOnly(buf, hs, nblk, acc) ==
    LET idx == IndexOf(buf, <<NL, NL>>)
    IN IF idx = -1
       THEN [buffer |-> buf, calls |-> acc, nblocks |-> nblk, raised |-> FALSE]
       ELSE [buffer |-> Slice(buf, idx + 2),
             calls |-> acc \o EmitEvent(SliceTo(buf, 0, idx), hs, nblk + 1).calls,
             nblocks |-> nblk + 1, raised |-> FALSE]

\* the inner while loop: extract and emit every complete block of the buffer
RECURSIVE ProcessBuffer(_, _, _, _)
ProcessBuffer(buf, hs, nblk, acc) ==
    LET idx == IndexOf(buf, <<NL, NL>>)
    IN IF idx = -1
       THEN [buffer |-> buf, calls |-> acc, nblocks |-> nblk, raised |-> FALSE]
       ELSE LET block == SliceTo(buf, 0, idx)
                rest == Slice(buf, idx + 2)
                e == EmitEvent(block, hs, nblk + 1)
            IN IF e.raised
               THEN [buffer |-> rest, calls |-> acc \o e.calls,
                     nblocks |-> nblk + 1, raised |-> TRUE]
               ELSE ProcessBuffer(rest, hs, nblk + 1, acc \o e.calls)

(***************************************************************************)
(* Event blocks the modelled server sends (text between two delimiters).   *)
(***************************************************************************)
\* start, the payload 12 split over two data lines
BStart ==
    <<"e", "v", "e", "n", "t", ":", "s", "t", "a", "r", "t", NL, "d", "a",
      "t", "a", ":", "1", NL, "d", "a", "t", "a", ":", "2">>

\* chunk with a string payload holding a two-byte character
BChunk ==
    <<"e", "v", "e", "n", "t", ":", "c", "h", "u", "n", "k", NL, "d", "a",
      "t", "a", ":", QUOTE, EACUTE, QUOTE>>

\* complete after an extra newline, name and payload padded with spaces
BComplete ==
    <<NL, "e", "v", "e", "n", "t", ":", " ", "c", "o", "m", "p", "l", "e",
      "t", "e", " ", NL, "d", "a", "t", "a", ":", " ", "2", " ">>

\* error with a message
BErrorMessage ==
    <<"e", "v", "e", "n", "t", ":", "e", "r", "r", "o", "r", NL, "d", "a",
      "t", "a", ":", "{", QUOTE, "m", "e", "s", "s", "a", "g", "e", QUOTE,
      ":", QUOTE, EACUTE, QUOTE, "}">>

\* error without a message
BErrorEmpty ==
    <<"e", "v", "e", "n", "t", ":", "e", "r", "r", "o", "r", NL, "d", "a",
      "t", "a", ":", "{", "}">>

\* error with a null payload
BErrorNull ==
    <<"e", "v", "e", "n", "t", ":", "e", "r", "r", "o", "r", NL, "d", "a",
      "t", "a", ":", "n", "u", "l", "l">>

\* no event line: the default name
BNoEvent ==
    <<"d", "a", "t", "a", ":", "1">>

\* unrecognized event name
BUnknown ==
    <<"e", "v", "e", "n", "t", ":", "p", "i", "n", "g", NL, "d", "a", "t",
      "a", ":", "1">>

\* no data line
BNoData ==
    <<"e", "v", "e", "n", "t", ":", "c", "h", "u", "n", "k">>

\* data line with blank content
BBlankData ==
    <<"e", "v", "e", "n", "t", ":", "c", "o", "m", "p", "l", "e", "t", "e",
      NL, "d", "a", "t", "a", ":", " ">>

\* payload that is not JSON
BBadJson ==
    <<"e", "v", "e", "n", "t", ":", "c", "h", "u", "n", "k", NL, "d", "a",
      "t", "a", ":", "{">>

BlockTexts ==
    {BStart, BChunk, BComplete, BErrorMessage,
     BErrorEmpty, BErrorNull, BNoEvent, BUnknown,
     BNoData, BBlankData, BBadJson}

(***************************************************************************)
(* The responses of the modelled backend.                                  *)
(***************************************************************************)
DELIM == <<NL, NL>>

\* the text of a stream: every block followed by the blank-line delimiter,
\* except the last one when the stream is cut before its delimiter
RECURSIVE StreamText(_, _)
StreamText(blocks, terminated) ==
    IF blocks = <<>> THEN <<>>
    ELSE IF Len(blocks) = 1
         THEN Head(blocks) \o (IF terminated THEN DELIM ELSE <<>>)
         ELSE Head(blocks) \o DELIM \o StreamText(Tail(blocks), terminated)

BlockSeqs == UNION {[1..n -> BlockTexts] : n \in 0..MaxBlocks}

StreamBodies ==
    {b \in {Encode(StreamText(bs, t)) : bs \in BlockSeqs, t \in BOOLEAN} :
        Len(b) <= MaxStreamBytes}

\* {"transcript":"é","duration":1}
TranscribeJson ==
    <<"{", QUOTE, "t", "r", "a", "n", "s", "c", "r", "i", "p", "t", QUOTE, ":",
      QUOTE, EACUTE, QUOTE, ",", QUOTE, "d", "u", "r", "a", "t", "i", "o", "n",
      QUOTE, ":", "1", "}">>

ErrorText == <<"b", "o", "o", "m">>

PlainBodies == {Encode(TranscribeJson), Encode(ErrorText), <<>>}

Statuses == {200, 204, 404, 500}

NetworkFailure == [kind |-> "network_error", status |-> 0, hasBody |-> FALSE]

\* what fetch() settles with: a rejection or a Response
FetchOutcomes ==
    {NetworkFailure} \cup
    {[kind |-> "response", status |-> st, hasBody |-> b] :
        st \in Statuses \ {204}, b \in BOOLEAN} \cup
    {[kind |-> "response", status |-> 204, hasBody |-> FALSE]}

\* Response.ok
ResponseOk(r) == r.kind = "response" /\ r.status >= 200 /\ r.status <= 299

\* await response.text()
ResponseText(r, body) ==
    IF r.hasBody THEN DecodeBytes(<<>>, body, FALSE).text ELSE <<>>

(***************************************************************************)
(* Caller-supplied handlers of transcribeStream: absent, returning or      *)
(* throwing.                                                               *)
(***************************************************************************)
AllHandlers == [h \in HandlerNames |-> "returns"]

NoHandlers == [h \in HandlerNames |-> "absent"]

\* onStart returns, onComplete throws, onChunk and onError are not supplied
PartialHandlers ==
    [h \in HandlerNames |->
        IF h = "onStart" THEN "returns" ELSE IF h = "onComplete" THEN "throws" ELSE "absent"]

HandlerConfigs == {AllHandlers, PartialHandlers}

(***************************************************************************)
(* Errors and results.                                                     *)
(***************************************************************************)
Ops == {"transcribeStream", "transcribe", "healthCheck"}

Url(o) ==
    CASE o = "transcribeStream" -> "/api/transcribe/stream"
      [] o = "transcribe" -> "/api/transcribe"
      [] o = "healthCheck" -> "/health"

JsError(name, message) == [name |-> name, message |-> message]

FetchFailed == JsError("TypeError", <<"Failed to fetch">>)

StatusMessage(prefix, status) == <<prefix, ToString(status)>>

\* new Error(error || `${prefix}${response.status}`)
HttpError(text, prefix, status) ==
    JsError("Error", IF text # <<>> THEN text ELSE StatusMessage(prefix, status))

JBool(b) == [t |-> "bool", b |-> b]

(***************************************************************************)
(* The components around the client, as they are constructed.              *)
(***************************************************************************)
\* config.maxUploadMb, the upload limit in megabytes
MaxUploadMb == 50

\* no File: audioFile and uploadedFile are null
NoFile == [name |-> "", size |-> 0]

\* useState initial values of Index, AudioRecorder and SettingsDialog
PageConstructed ==
    /\ isConnected = "null"
    /\ audioFile = NoFile
    /\ transcript = ""
    /\ summary = ""
    /\ isTranscribing = FALSE
    /\ isSummarizing = FALSE
    /\ isCleaning = FALSE
    /\ uploadedFile = NoFile
    /\ open = FALSE
    /\ loading = FALSE
    /\ saving = FALSE
    /\ localSettings = "defaults"
    /\ shown = <<>>
    /\ settled = [kind |-> "none", ok |-> TRUE]
    /\ unhandled = 0
    /\ language = "en"
    /\ diarization = FALSE

\* useState and useRef initial values of the recording AudioRecorder; no
\* MediaRecorder and no interval timer exists
RecorderConstructed ==
    /\ isRecording = FALSE
    /\ recordingTime = 0
    /\ mediaRecorderRef = 0
    /\ timerRef = 0
    /\ permissionRequests = 0
    /\ mediaRecorders = <<>>
    /\ intervals = <<>>
    /\ startClicks = 0
    /\ stopped = 0
    /\ delivered = 0

\* localStorage holds no item under STORAGE_KEY
Absent == [present |-> FALSE, text |-> <<>>]

\* the store before the settings state is initialised
StoreConstructed == stored = Absent /\ settings = JUndefined

\* no client call is running
ApiIdle ==
    /\ op = "none"
    /\ pc = "idle"
    /\ resp = NetworkFailure
    /\ stream = <<>>
    /\ handlers = NoHandlers
    /\ pos = 0
    /\ pending = <<>>
    /\ buffer = <<>>
    /\ nblocks = 0
    /\ calls = <<>>
    /\ thrown = <<>>
    /\ result = <<>>
    /\ requests = <<>>

(***************************************************************************)
(* State machine: one call of one client method per behaviour.             *)
(***************************************************************************)
Init ==
    /\ op \in Ops
    /\ resp \in FetchOutcomes
    /\ stream \in (IF ~resp.hasBody THEN {<<>>}
                   ELSE IF op = "transcribeStream" THEN StreamBodies
                   ELSE PlainBodies)
    /\ handlers \in (IF op = "transcribeStream" THEN HandlerConfigs ELSE {NoHandlers})
    /\ pc = "start"
    /\ pos = 0
    /\ pending = <<>>
    /\ buffer = <<>>
    /\ nblocks = 0
    /\ calls = <<>>
    /\ thrown = <<>>
    /\ result = <<>>
    /\ requests = <<>>
    /\ abandoned = FALSE
    /\ PageConstructed /\ RecorderConstructed /\ inflight = EmptyBag
    /\ StoreConstructed

\* await fetch(url, ...)
Fetch ==
    /\ pc = "start"
    /\ requests' = Append(requests, Url(op))
    /\ pc' = "fetched"
    /\ UNCHANGED <<op, resp, handlers, stream, pos, pending, buffer, nblocks,
                   calls, thrown, result>>
    /\ UNCHANGED <<callerVars, pageVars, storeVars, recorderVars>>

StreamBadResponseOkOnly(r) == ~ResponseOk(r)

\* !response.ok || !response.body
StreamBadResponse(r) == ~ResponseOk(r) \/ ~r.hasBody

\* transcribeStream after the fetch: the response check and getReader()
StreamOpen ==
    /\ op = "transcribeStream" /\ pc = "fetched"
    /\ IF resp.kind = "network_error"
       THEN pc' = "rejected" /\ thrown' = Append(thrown, FetchFailed)
       ELSE IF StreamBadResponse(resp)
            THEN /\ pc' = "rejected"
                 /\ thrown' = Append(thrown,
                        HttpError(ResponseText(resp, stream),
                                  "Transcription stream failed: ", resp.status))
            ELSE IF ~resp.hasBody
                 THEN /\ pc' = "rejected"
                      /\ thrown' = Append(thrown,
                             JsError("TypeError", <<"response.body is null">>))
                 ELSE pc' = "reading" /\ thrown' = thrown
    /\ UNCHANGED <<op, resp, handlers, stream, pos, pending, buffer, nblocks,
                   calls, result, requests>>
    /\ UNCHANGED <<callerVars, pageVars, storeVars, recorderVars>>

ChunkSizes == {n \in 1..(Len(stream) - pos) : n <= MaxChunk \/ n = Len(stream) - pos}

\* one iteration of the read loop with done = false
StreamRead ==
    /\ op = "transcribeStream" /\ pc = "reading"
    /\ \E n \in ChunkSizes :
         LET value == SubSeq(stream, pos + 1, pos + n)
             d == Decode(pending, value)
             r == ProcessBuffer(buffer \o d.text, handlers, nblocks, <<>>)
         IN /\ pos' = pos + n
            /\ pending' = d.pending
            /\ buffer' = r.buffer
            /\ nblocks' = r.nblocks
            /\ calls' = calls \o r.calls
            /\ IF r.raised
               THEN /\ pc' = "rejected"
                    /\ thrown' = Append(thrown, JsError("Error", <<"emitEvent">>))
               ELSE pc' = pc /\ thrown' = thrown
    /\ UNCHANGED <<op, resp, handlers, stream, result, requests>>
    /\ UNCHANGED <<callerVars, pageVars, storeVars, recorderVars>>

StreamEndFlushesBuffer ==
    /\ op = "transcribeStream" /\ pc = "reading"
    /\ pos = Len(stream)
    /\ pc' = "resolved"
    /\ calls' = calls \o EmitEvent(buffer, handlers, nblocks + 1).calls
    /\ UNCHANGED <<op, resp, handlers, stream, pos, pending, buffer, nblocks,
                   thrown, result, requests>>
    /\ UNCHANGED <<callerVars, pageVars, storeVars, recorderVars>>

StreamEndRequiresTerminal ==
    /\ op = "transcribeStream" /\ pc = "reading"
    /\ pos = Len(stream)
    /\ IF \E i \in 1..Len(calls) : calls[i].h \in {"onComplete", "onError"}
       THEN pc' = "resolved" /\ thrown' = thrown
       ELSE /\ pc' = "rejected"
            /\ thrown' = Append(thrown, JsError("Error", <<"Stream ended">>))
    /\ UNCHANGED <<op, resp, handlers, stream, pos, pending, buffer, nblocks,
                   calls, result, requests>>
    /\ UNCHANGED <<callerVars, pageVars, storeVars, recorderVars>>

\* the read that returns done = true: the loop breaks and the call resolves
StreamEnd ==
    /\ op = "transcribeStream" /\ pc = "reading"
    /\ pos = Len(stream)
    /\ pc' = "resolved"
    /\ UNCHANGED <<op, resp, handlers, stream, pos, pending, buffer, nblocks,
                   calls, thrown, result, requests>>
    /\ UNCHANGED <<callerVars, pageVars, storeVars, recorderVars>>

TranscribeBadResponseNever(r) == FALSE

\* !response.ok
TranscribeBadResponse(r) == ~ResponseOk(r)

\* transcribe after the fetch
TranscribeSettle ==
    /\ op = "transcribe" /\ pc = "fetched"
    /\ IF resp.kind = "network_error"
       THEN pc' = "rejected" /\ thrown' = Append(thrown, FetchFailed) /\ result' = result
       ELSE IF TranscribeBadResponse(resp)
            THEN /\ pc' = "rejected"
                 /\ thrown' = Append(thrown,
                        HttpError(ResponseText(resp, stream),
                                  "Transcription failed: ", resp.status))
                 /\ result' = result
            ELSE LET j == JSONParse(ResponseText(resp, stream))
                 IN IF j.ok
                    THEN pc' = "resolved" /\ result' = Append(result, j.v) /\ thrown' = thrown
                    ELSE /\ pc' = "rejected"
                         /\ thrown' = Append(thrown, JsError("SyntaxError", <<"JSON">>))
                         /\ result' = result
    /\ UNCHANGED <<op, resp, handlers, stream, pos, pending, buffer, nblocks,
                   calls, requests>>
    /\ UNCHANGED <<callerVars, pageVars, storeVars, recorderVars>>

HealthResultRethrow(r) ==
    IF r.kind = "network_error"
    THEN [returned |-> <<>>, thrown |-> <<FetchFailed>>]
    ELSE [returned |-> <<JBool(ResponseOk(r))>>, thrown |-> <<>>]

\* try { return response.ok } catch { return false }
HealthResult(r) ==
    IF r.kind = "network_error"
    THEN [returned |-> <<JBool(FALSE)>>, thrown |-> <<>>]
    ELSE [returned |-> <<JBool(ResponseOk(r))>>, thrown |-> <<>>]

\* healthCheck after the fetch
HealthSettle ==
    /\ op = "healthCheck" /\ pc = "fetched"
    /\ LET h == HealthResult(resp)
       IN /\ result' = result \o h.returned
          /\ thrown' = thrown \o h.thrown
          /\ pc' = IF h.thrown = <<>> THEN "resolved" ELSE "rejected"
    /\ UNCHANGED <<op, resp, handlers, stream, pos, pending, buffer, nblocks,
                   calls, requests>>
    /\ UNCHANGED <<callerVars, pageVars, storeVars, recorderVars>>

Next ==
    \/ Fetch
    \/ StreamOpen
    \/ StreamRead
    \/ StreamEnd
    \/ TranscribeSettle
    \/ HealthSettle

Spec == Init /\ [][Next]_vars

(***************************************************************************)
(* Reference notions used by the properties, computed from the whole       *)
(* stream content.                                                         *)
(***************************************************************************)
IsStream == op = "transcribeStream"

\* the initial response lets the streaming begin
GoodResponse == resp.kind = "response" /\ ResponseOk(resp) /\ resp.hasBody

\* the initial response has a non-success status or no body
FailingResponse == resp.kind = "response" /\ (~ResponseOk(resp) \/ ~resp.hasBody)

FullText == DecodeBytes(<<>>, stream, FALSE).text

\* the complete blocks of a text, in the order in which they end
RECURSIVE BlocksOf(_)
BlocksOf(text) ==
    LET idx == IndexOf(text, DELIM)
    IN IF idx = -1 THEN <<>>
       ELSE <<SliceTo(text, 0, idx)>> \o BlocksOf(Slice(text, idx + 2))

StreamBlocks == BlocksOf(FullText)

BlockOfCall(c) == StreamBlocks[c.blk]

\* the block has no data line, or only data lines with blank content
EmptyPayload(block) ==
    LET lines == SplitLines(block)
    IN \A i \in 1..Len(lines) :
          StartsWith(lines[i], DATA_PREFIX) => Trim(Slice(lines[i], 5)) = <<>>

PayloadOf(block) == BlockFields(block).data

NameOf(block) == BlockFields(block).event

InvalidJson(block) == PayloadOf(block) # <<>> /\ ~JSONParse(PayloadOf(block)).ok

HandlerFor(name) ==
    CASE name = EvStart -> "onStart"
      [] name = EvChunk -> "onChunk"
      [] name = EvComplete -> "onComplete"
      [] name = EvError -> "onError"
      [] OTHER -> "none"

\* the block is discarded: empty payload, invalid JSON or unrecognized name
Dropped(block) ==
    \/ EmptyPayload(block)
    \/ InvalidJson(block)
    \/ HandlerFor(NameOf(block)) = "none"

NotDropped(block) == ~Dropped(block)

Invocation(c) == [h |-> c.h, arg |-> c.arg]

Invocations(cs) == [i \in 1..Len(cs) |-> Invocation(cs[i])]

\* the invocations a sequence of blocks yields when each is dispatched alone
RECURSIVE InvocationsOfBlocks(_)
InvocationsOfBlocks(blocks) ==
    IF blocks = <<>> THEN <<>>
    ELSE Invocations(EmitEvent(Head(blocks), handlers, 0).calls)
         \o InvocationsOfBlocks(Tail(blocks))

(***************************************************************************)
(* Properties of transcribeStream.                                         *)
(***************************************************************************)
SingleReadCalls ==
    ProcessBuffer(DecodeBytes(<<>>, stream, TRUE).text, handlers, 0, <<>>).calls

\* C1: however the stream content was split into reads, the call ends with
\* the handler invocations (handler, payload, order) that delivering the
\* whole content in one single read gives.
ChunkBoundaryIndependence ==
    (IsStream /\ pc = "resolved") => calls = SingleReadCalls

\* a read boundary fell inside a two-byte character after an invocation
SplitInsideBlock ==
    IsStream /\ pc = "reading" /\ pending # <<>> /\ calls # <<>>

\* C2: handlers are invoked in stream order: the invocations recorded so
\* far come from blocks of strictly increasing position in the stream, and
\* each is the invocation of the block at that position.
HandlersInStreamOrder ==
    IsStream =>
        /\ \A i, j \in 1..Len(calls) : i < j => calls[i].blk < calls[j].blk
        /\ \A i \in 1..Len(calls) :
              /\ calls[i].blk \in 1..Len(StreamBlocks)
              /\ <<calls[i]>> = EmitEvent(BlockOfCall(calls[i]), handlers, calls[i].blk).calls

\* a chunk block then a complete block: onChunk was invoked, then onComplete
ChunkThenComplete ==
    /\ IsStream /\ pc = "resolved"
    /\ StreamBlocks = <<BChunk, BComplete>>
    /\ Len(calls) = 2
    /\ calls[1].h = "onChunk" /\ calls[2].h = "onComplete"

\* C3: a block whose accumulated data payload is empty causes no handler
\* invocation, whatever its event name.
EmptyPayloadNoInvocation ==
    IsStream => \A i \in 1..Len(calls) : ~EmptyPayload(BlockOfCall(calls[i]))

\* blocks without payload, named chunk and complete, went by with all
\* handlers supplied
EmptyPayloadBlocksSeen ==
    /\ IsStream /\ pc = "resolved" /\ handlers = AllHandlers
    /\ StreamBlocks = <<BNoData, BBlankData>>
    /\ nblocks = 2

\* C4: a block whose non-empty payload is not valid JSON causes no handler
\* invocation, and the call does not throw or reject because of it.
InvalidJsonSwallowed ==
    IsStream =>
        /\ \A i \in 1..Len(calls) : ~InvalidJson(BlockOfCall(calls[i]))
        /\ GoodResponse => thrown = <<>> /\ pc # "rejected"

\* a block with an invalid payload was processed and the call resolved
InvalidJsonBlockSeen ==
    /\ IsStream /\ pc = "resolved"
    /\ \E k \in 1..nblocks : InvalidJson(StreamBlocks[k])

\* C5: a dropped block does not abort the stream: once the whole content
\* has been read, the invocations are those of the stream's complete blocks
\* with the dropped ones left out, and the call has not failed.
DroppedBlockDoesNotAbort ==
    (IsStream /\ GoodResponse /\ pos = Len(stream)) =>
        /\ pc # "rejected"
        /\ (pc \in {"reading", "resolved"} =>
              Invocations(calls) = InvocationsOfBlocks(SelectSeq(StreamBlocks, NotDropped)))

\* a block was dropped and a later block was dispatched
DispatchAfterDroppedBlock ==
    /\ IsStream /\ pc = "resolved"
    /\ \E k \in 1..nblocks :
          /\ Dropped(StreamBlocks[k])
          /\ \E i \in 1..Len(calls) : calls[i].blk > k

\* C6: dispatch by event name: a block invokes at most one handler, the one
\* its event name selects, and only if it was supplied; any other name,
\* the default name included, invokes nothing; nothing is raised.
DispatchByEventName ==
    IsStream =>
        /\ \A i \in 1..Len(calls) :
              /\ calls[i].h = HandlerFor(NameOf(BlockOfCall(calls[i])))
              /\ handlers[calls[i].h] # "absent"
        /\ \A i, j \in 1..Len(calls) : i # j => calls[i].blk # calls[j].blk
        /\ GoodResponse => thrown = <<>>

\* a chunk block whose handler was not supplied and a block with the
\* default name went by without invocation
UnroutedBlocksSeen ==
    /\ IsStream /\ pc = "resolved" /\ calls = <<>>
    /\ handlers = PartialHandlers
    /\ StreamBlocks = <<BChunk, BNoEvent>>

ParsedPayload(c) == JSONParse(PayloadOf(BlockOfCall(c))).v

\* C7 as stated: every handler, onError included, is called with the value
\* obtained by parsing the block's data payload as JSON.
EveryHandlerGetsParsedPayload ==
    IsStream => \A i \in 1..Len(calls) : calls[i].arg = ParsedPayload(calls[i])

\* C7 amended: onStart, onChunk and onComplete are called with the parsed
\* payload; onError is called with the message member of the parsed
\* payload when that is truthy and with the text "Stream error" otherwise.
HandlerGetsPayloadOrMessage ==
    IsStream =>
        \A i \in 1..Len(calls) :
            LET parsed == ParsedPayload(calls[i])
            IN IF calls[i].h = "onError"
               THEN /\ parsed.t # "null"
                    /\ calls[i].arg =
                          IF Truthy(GetProp(parsed, MESSAGE).v)
                          THEN GetProp(parsed, MESSAGE).v
                          ELSE JStr(StreamErrorText)
               ELSE calls[i].arg = parsed

\* onStart got the number 12, onError the default text
PayloadsDelivered ==
    /\ IsStream /\ pc = "resolved"
    /\ StreamBlocks = <<BStart, BErrorEmpty>>
    /\ Len(calls) = 2
    /\ calls[1].arg = JNum(12)
    /\ calls[2].arg = JStr(StreamErrorText)

\* C8: when the initial response has a non-success status or no body, the
\* call throws exactly one error, whose message is the body text when that
\* is non-empty and a status-derived message otherwise, and no handler is
\* invoked.
FailingResponseThrowsOnce ==
    (IsStream /\ FailingResponse) =>
        /\ calls = <<>>
        /\ pc \notin {"reading", "resolved"}
        /\ Len(thrown) <= 1
        /\ pc = "rejected" =>
              /\ Len(thrown) = 1
              /\ thrown[1].message =
                    IF FullText # <<>> /\ resp.hasBody THEN FullText
                    ELSE <<"Transcription stream failed: ", ToString(resp.status)>>

\* a response with status 500 whose body carried event blocks was rejected
FailingResponseRejected ==
    /\ IsStream /\ pc = "rejected"
    /\ resp.status = 500
    /\ StreamBlocks = <<BChunk, BComplete>>

(***************************************************************************)
(* Properties of healthCheck and transcribe.                               *)
(***************************************************************************)
\* C9: healthCheck never throws: it resolves to false on a network failure
\* and otherwise to true exactly when the status is a success status; it
\* issues a single request.
HealthCheckNeverThrows ==
    op = "healthCheck" =>
        /\ thrown = <<>> /\ pc # "rejected"
        /\ requests \in {<<>>, <<"/health">>}
        /\ pc = "resolved" =>
              /\ requests = <<"/health">>
              /\ result = <<JBool(resp.kind = "response"
                                  /\ resp.status \in 200..299)>>

\* the host was unreachable and healthCheck resolved to false
HealthCheckUnreachable ==
    /\ op = "healthCheck" /\ pc = "resolved"
    /\ resp.kind = "network_error"
    /\ result = <<JBool(FALSE)>>

\* C10: transcribe, on a non-success status, throws an error whose message
\* is the body text, or a status-derived message when the text is empty,
\* and returns no result.
TranscribeFailureThrows ==
    (op = "transcribe" /\ resp.kind = "response" /\ resp.status \notin 200..299) =>
        /\ result = <<>> /\ pc # "resolved"
        /\ pc \notin {"start", "fetched"} =>
              /\ pc = "rejected"
              /\ Len(thrown) = 1
              /\ thrown[1].name = "Error"
              /\ thrown[1].message =
                    IF FullText # <<>> /\ resp.hasBody THEN FullText
                    ELSE <<"Transcription failed: ", ToString(resp.status)>>

\* a 500 response with a body text was turned into an error
TranscribeFailed ==
    /\ op = "transcribe" /\ pc = "rejected" /\ resp.status = 500
    /\ FullText = ErrorText

(***************************************************************************)
(* The end of the stream.                                                  *)
(***************************************************************************)
\* the block is named complete or error
TerminalBlock(block) == NameOf(block) \in {EvComplete, EvError}

TerminalCall(c) == c.h \in {"onComplete", "onError"}

\* C14: after a response that lets the streaming begin, transcribeStream
\* never throws; it resolves only when every byte of the stream was read
\* and every complete block dispatched; and when the stream holds no
\* complete block named complete or error, neither onComplete nor onError
\* is ever invoked.
StreamEndsUnreported ==
    (IsStream /\ GoodResponse) =>
        /\ pc # "rejected" /\ thrown = <<>>
        /\ pc = "resolved" => (pos = Len(stream) /\ nblocks = Len(StreamBlocks))
        /\ (\A k \in 1..Len(StreamBlocks) : ~TerminalBlock(StreamBlocks[k]))
              => \A i \in 1..Len(calls) : ~TerminalCall(calls[i])

\* a stream of a start and a chunk block ended without terminal block
EndedWithoutTerminal ==
    /\ IsStream /\ pc = "resolved"
    /\ StreamBlocks = <<BStart, BChunk>>
    /\ Len(calls) = 2 /\ thrown = <<>>

(***************************************************************************)
(* The protocol of the stream events: blocks with the payloads of          *)
(* TranscribeStreamStart, TranscribeStreamChunk, TranscribeStreamComplete. *)
(***************************************************************************)
MaxProtocolBlocks == 2

\* start, {"duration":1}
PStart ==
    <<"e", "v", "e", "n", "t", ":", "s", "t", "a", "r", "t", NL, "d", "a",
      "t", "a", ":", "{", QUOTE, "d", "u", "r", "a", "t", "i", "o", "n",
      QUOTE, ":", "1", "}">>

\* the first of two chunks
PChunk0 ==
    <<"e", "v", "e", "n", "t", ":", "c", "h", "u", "n", "k", NL, "d", "a",
      "t", "a", ":", "{", QUOTE, "i", "n", "d", "e", "x", QUOTE, ":", "0",
      ",", QUOTE, "t", "o", "t", "a", "l", QUOTE, ":", "2", "}">>

\* the second of two chunks
PChunk1 ==
    <<"e", "v", "e", "n", "t", ":", "c", "h", "u", "n", "k", NL, "d", "a",
      "t", "a", ":", "{", QUOTE, "i", "n", "d", "e", "x", QUOTE, ":", "1",
      ",", QUOTE, "t", "o", "t", "a", "l", QUOTE, ":", "2", "}">>

\* complete, {"duration":1}
PComplete ==
    <<"e", "v", "e", "n", "t", ":", "c", "o", "m", "p", "l", "e", "t", "e",
      NL, "d", "a", "t", "a", ":", "{", QUOTE, "d", "u", "r", "a", "t",
      "i", "o", "n", QUOTE, ":", "1", "}">>

\* the bytes of up to MaxProtocolBlocks blocks, each with its delimiter
ProtocolBodies ==
    LET blocks == {PStart, PChunk0, PChunk1, PComplete, BErrorMessage}
    IN {StreamText([i \in 1..Len(bs) |-> Encode(bs[i])], TRUE) :
           bs \in UNION {[1..n -> blocks] : n \in 0..MaxProtocolBlocks}}

\* 200 with a body
OkWithBody == [kind |-> "response", status |-> 200, hasBody |-> TRUE]

\* a call that has not started
CallStart ==
    /\ pc = "start"
    /\ pos = 0
    /\ pending = <<>>
    /\ buffer = <<>>
    /\ nblocks = 0
    /\ calls = <<>>
    /\ thrown = <<>>
    /\ result = <<>>
    /\ requests = <<>>

MaxLines == 3

\* lines.join("\n")
RECURSIVE JoinLines(_)
JoinLines(ls) ==
    IF ls = <<>> THEN <<>>
    ELSE IF Len(ls) = 1 THEN Head(ls)
         ELSE Head(ls) \o <<NL>> \o JoinLines(Tail(ls))

\* one terminated block of up to MaxLines lines: event: and data: lines,
\* plain and padded, a blank line and a line of another prefix
LineBodies ==
    LET texts == {
            <<"e", "v", "e", "n", "t", ":", "s", "t", "a", "r", "t">>,
            <<"e", "v", "e", "n", "t", ":", " ", "c", "h", "u", "n", "k",
              " ">>,
            <<"d", "a", "t", "a", ":", "1">>,
            <<"d", "a", "t", "a", ":", " ", "2", " ">>,
            <<" ">>,
            <<"r", "e", "t", "r", "y", ":", "d", "a", "t", "a", ":", "9">>}
    IN {Encode(JoinLines(ls) \o DELIM) :
           ls \in UNION {[1..n -> texts] : n \in 1..MaxLines}}

\* one streaming call on a response of one block of lines
InitLines ==
    /\ op = "transcribeStream"
    /\ resp = OkWithBody
    /\ stream \in LineBodies
    /\ handlers = AllHandlers
    /\ CallStart
    /\ abandoned = FALSE
    /\ PageConstructed /\ RecorderConstructed /\ inflight = EmptyBag
    /\ StoreConstructed

NextLines ==
    \/ Fetch
    \/ StreamOpen
    \/ StreamRead
    \/ StreamEnd

SpecLines == InitLines /\ [][NextLines]_vars

\* one streaming call on a response of protocol blocks
InitStream ==
    /\ op = "transcribeStream"
    /\ resp = OkWithBody
    /\ stream \in ProtocolBodies
    /\ handlers = AllHandlers
    /\ CallStart
    /\ abandoned = FALSE
    /\ PageConstructed /\ RecorderConstructed /\ inflight = EmptyBag
    /\ StoreConstructed

\* the caller stops caring about the call (its component unmounts);
\* transcribeStream takes no signal and nothing in it observes the caller
Abandon ==
    /\ op = "transcribeStream" /\ pc = "reading"
    /\ ~abandoned
    /\ abandoned' = TRUE
    /\ UNCHANGED <<apiVars, pageVars, storeVars, recorderVars>>

NextStream ==
    \/ Fetch
    \/ StreamOpen
    \/ StreamRead
    \/ StreamEnd
    \/ Abandon

SpecStream == InitStream /\ [][NextStream]_vars

\* response.body.getReader() locks the stream and the loop reads from the
\* reader until done; the reader is never cancelled, its lock never released
ReaderLocked == op = "transcribeStream" /\ pc = "reading"

INDEX == <<"i", "n", "d", "e", "x">>

TOTAL == <<"t", "o", "t", "a", "l">>

\* the number under a key of a payload, -1 when there is none
NumberAt(v, key) ==
    IF v.t # "obj" THEN -1
    ELSE LET p == GetProp(v, key)
         IN IF ~p.threw /\ p.v.t = "num" THEN p.v.n ELSE -1

\* the protocol order of a sequence of events (handler, payload): Start
\* only first, chunk indexes strictly increasing within 0..total-1, nothing
\* after a Complete or Error
ProtocolOrder(es) ==
    /\ \A i \in 1..Len(es) : es[i].h = "onStart" => i = 1
    /\ \A i \in 1..Len(es) : es[i].h = "onChunk" =>
          /\ NumberAt(es[i].arg, INDEX) >= 0
          /\ NumberAt(es[i].arg, INDEX) < NumberAt(es[i].arg, TOTAL)
    /\ \A i, j \in 1..Len(es) :
          (i < j /\ es[i].h = "onChunk" /\ es[j].h = "onChunk") =>
              NumberAt(es[i].arg, INDEX) < NumberAt(es[j].arg, INDEX)
    /\ \A i \in 1..Len(es) : TerminalCall(es[i]) => i = Len(es)

EndsWithTerminal(es) == es # <<>> /\ TerminalCall(es[Len(es)])

\* the events the complete blocks of the stream describe
StreamEvents == InvocationsOfBlocks(StreamBlocks)

\* C12 as stated: the invocations are in protocol order whatever the stream
\* holds, and a resolved call has delivered exactly one terminal event
EventsAlwaysInProtocolOrder ==
    IsStream =>
        /\ ProtocolOrder(Invocations(calls))
        /\ pc = "resolved" => EndsWithTerminal(Invocations(calls))

\* C12: the parser delivers the events in the order of the stream and
\* enforces no order of its own: when the events of the stream's blocks are
\* in protocol order, so are the handler invocations at every moment, and a
\* resolved call has delivered a terminal event exactly when the stream
\* holds one.
ProtocolOrderPreserved ==
    (IsStream /\ ProtocolOrder(StreamEvents)) =>
        /\ ProtocolOrder(Invocations(calls))
        /\ pc = "resolved" =>
              (EndsWithTerminal(Invocations(calls)) <=> EndsWithTerminal(StreamEvents))

\* both chunks arrived in order and the call resolved without a terminal
\* event
ChunksDeliveredInOrder ==
    /\ IsStream /\ pc = "resolved"
    /\ StreamBlocks = <<PChunk0, PChunk1>>
    /\ Len(calls) = 2

\* C13: once the caller has abandoned the call, the next step of the
\* parser reads no byte, invokes no handler and leaves the read loop with
\* the reader released.
AbandonStopsParser ==
    [][abandoned => (pos' = pos /\ calls' = calls /\ ~ReaderLocked')]_vars

(***************************************************************************)
(* The lines of a block.                                                   *)
(***************************************************************************)
\* the largest index of a line beginning with event:, 0 when there is none
LastEventLine(lines) ==
    LET S == {i \in 1..Len(lines) : StartsWith(lines[i], EVENT_PREFIX)}
    IN IF S = {} THEN 0 ELSE CHOOSE i \in S : \A j \in S : j <= i

\* the trimmed text after the last event: line, message without one
EventNameOf(block) ==
    LET lines == SplitLines(block)
        i == LastEventLine(lines)
    IN IF i = 0 THEN EvMessage ELSE Trim(Slice(lines[i], 6))

\* the trimmed texts after the data: lines among the first n lines, joined
RECURSIVE DataUpTo(_, _)
DataUpTo(lines, n) ==
    IF n = 0 THEN <<>>
    ELSE DataUpTo(lines, n - 1)
         \o (IF StartsWith(lines[n], DATA_PREFIX) THEN Trim(Slice(lines[n], 5))
             ELSE <<>>)

DataOf(block) == DataUpTo(SplitLines(block), Len(SplitLines(block)))

\* C15: the event name of a block is the trimmed text after its last
\* event: line (message without one), its payload the concatenation of the
\* trimmed texts after its data: lines, whatever other lines it holds; the
\* handler invoked for the block is the one of that name, and onStart,
\* onChunk and onComplete get that payload parsed.
LineFieldsAsSpecified ==
    IsStream =>
        /\ \A k \in 1..Len(StreamBlocks) :
              /\ NameOf(StreamBlocks[k]) = EventNameOf(StreamBlocks[k])
              /\ PayloadOf(StreamBlocks[k]) = DataOf(StreamBlocks[k])
        /\ \A i \in 1..Len(calls) :
              /\ calls[i].h = HandlerFor(EventNameOf(BlockOfCall(calls[i])))
              /\ calls[i].h # "onError" =>
                    calls[i].arg = JSONParse(DataOf(BlockOfCall(calls[i]))).v

\* two event: lines, a line of another prefix and two data: lines went to
\* onChunk as the number 12
LastEventLineWins ==
    /\ IsStream /\ pc = "resolved"
    /\ StreamBlocks =
          <<<<"e", "v", "e", "n", "t", ":", "s", "t", "a", "r", "t", NL,
              "e", "v", "e", "n", "t", ":", " ", "c", "h", "u", "n", "k",
              " ", NL, "d", "a", "t", "a", ":", " ", "2", " ">>>>
    /\ Len(calls) = 1 /\ calls[1].h = "onChunk" /\ calls[1].arg = JNum(2)

(***************************************************************************)
(* The legacy Index page: model settings kept in localStorage.             *)
(***************************************************************************)
\* "whisper-large-v3"
WHISPER_LARGE_V3 ==
    <<"w", "h", "i", "s", "p", "e", "r", "-", "l", "a", "r", "g", "e", "-",
      "v", "3">>

\* the keys of ModelSettings, in the order of the object literal
SettingsKeys ==
    <<<<"w", "h", "i", "s", "p", "e", "r", "U", "r", "l">>,
      <<"w", "h", "i", "s", "p", "e", "r", "T", "o", "k", "e", "n">>,
      <<"w", "h", "i", "s", "p", "e", "r", "M", "o", "d", "e", "l">>,
      <<"s", "u", "m", "m", "a", "r", "i", "z", "e", "r", "U", "r", "l">>,
      <<"s", "u", "m", "m", "a", "r", "i", "z", "e", "r", "T", "o", "k",
        "e", "n">>,
      <<"s", "u", "m", "m", "a", "r", "i", "z", "e", "r", "M", "o", "d",
        "e", "l">>>>

\* a ModelSettings object literal, members in the order of the literal
ModelSettings(f) == JObj([i \in 1..Len(SettingsKeys) |-> <<SettingsKeys[i], JStr(f[i])>>])

\* the object literal of the initializer
DefaultSettings == ModelSettings(<<<<>>, <<>>, WHISPER_LARGE_V3, <<>>, <<>>, <<>>>>)

NewSettings ==
    {ModelSettings(f) : f \in {g \in [1..6 -> {WHISPER_LARGE_V3, <<"m">>, <<>>, <<"x">>}] :
                                  \A i \in 1..6 :
                                     g[i] \in (IF i = 3 THEN {WHISPER_LARGE_V3, <<"m">>}
                                                ELSE {<<>>, <<"x">>})}}

\* JSON.stringify of null, a string without escapes or an object
RECURSIVE JSONStringify(_)
RECURSIVE StringifyMembers(_)
JSONStringify(v) ==
    CASE v.t = "null" -> <<"n", "u", "l", "l">>
      [] v.t = "str" -> <<QUOTE>> \o v.s \o <<QUOTE>>
      [] v.t = "obj" -> <<"{">> \o StringifyMembers(v.m) \o <<"}">>

StringifyMembers(ms) ==
    IF ms = <<>> THEN <<>>
    ELSE <<QUOTE>> \o Head(ms)[1] \o <<QUOTE, ":">> \o JSONStringify(Head(ms)[2])
         \o (IF Len(ms) = 1 THEN <<>> ELSE <<",">> \o StringifyMembers(Tail(ms)))

\* what localStorage can hold under STORAGE_KEY when the application loads
StoredValues ==
    {Absent} \cup
    {[present |-> TRUE, text |-> t] :
        t \in {<<>>, <<"{">>, <<"n", "u", "l", "l">>, <<"7">>,
               JSONStringify(JObj(<<<<SettingsKeys[1], JStr(<<"x">>)>>>>))}
              \cup {JSONStringify(s) : s \in NewSettings}}

\* the own members of the defaults overridden by those of the stored object
MergeOverDefaults(v) ==
    IF v.t # "obj" THEN DefaultSettings
    ELSE JObj([i \in 1..Len(SettingsKeys) |->
            LET p == GetProp(v, SettingsKeys[i])
            IN <<SettingsKeys[i],
                 IF p.v = JUndefined THEN DefaultSettings.m[i][2] ELSE p.v>>])

SettingsInitializerPerField(saved) ==
    IF saved.present /\ saved.text # <<>>
    THEN LET p == JSONParse(saved.text)
         IN IF p.ok THEN MergeOverDefaults(p.v) ELSE DefaultSettings
    ELSE DefaultSettings

\* useState(() => { const saved = localStorage.getItem(STORAGE_KEY); ... })
SettingsInitializer(saved) ==
    IF saved.present /\ saved.text # <<>>
    THEN LET p == JSONParse(saved.text)
         IN IF p.ok THEN p.v ELSE DefaultSettings
    ELSE DefaultSettings

InitSettings ==
    /\ stored \in StoredValues
    /\ settings = JUndefined
    /\ ApiIdle
    /\ abandoned = FALSE
    /\ PageConstructed /\ RecorderConstructed /\ inflight = EmptyBag

\* the application loads: the settings state is initialised
LoadSettings ==
    /\ settings = JUndefined
    /\ settings' = SettingsInitializer(stored)
    /\ UNCHANGED <<stored, apiVars, callerVars, pageVars, recorderVars>>

\* handleSaveSettings(newSettings)
SaveSettings ==
    /\ settings # JUndefined
    /\ \E new \in NewSettings :
         /\ settings' = new
         /\ stored' = [present |-> TRUE, text |-> JSONStringify(new)]
    /\ shown' = <<[title |-> "Settings saved", variant |-> "default"]>>
    /\ UNCHANGED <<isConnected, audioFile, transcript, summary, isTranscribing,
                   isSummarizing, isCleaning, uploadedFile, open, loading,
                   saving, localSettings, inflight, settled, unhandled,
                   language, diarization>>
    /\ UNCHANGED <<apiVars, callerVars, recorderVars>>

\* the page is closed: its state is gone, localStorage stays
Unload ==
    /\ settings # JUndefined
    /\ settings' = JUndefined
    /\ shown' = <<>>
    /\ UNCHANGED <<isConnected, audioFile, transcript, summary, isTranscribing,
                   isSummarizing, isCleaning, uploadedFile, open, loading,
                   saving, localSettings, inflight, settled, unhandled,
                   language, diarization>>
    /\ UNCHANGED <<stored, apiVars, callerVars, recorderVars>>

NextSettings ==
    \/ LoadSettings
    \/ SaveSettings
    \/ Unload

SpecSettings == InitSettings /\ [][NextSettings]_vars

\* the stored value is absent or its text does not parse
Unparsable(item) == ~item.present \/ ~JSONParse(item.text).ok

\* C20: the settings in use are exactly the hard-coded defaults when the
\* stored value is absent or fails to parse, and otherwise exactly the value
\* the stored text parses to, with no field added or replaced.
StoredSettingsUsedWhole ==
    settings # JUndefined =>
        /\ Unparsable(stored) => settings = DefaultSettings
        /\ ~Unparsable(stored) => settings = JSONParse(stored.text).v
        /\ DefaultSettings.m[3] = <<SettingsKeys[3], JStr(WHISPER_LARGE_V3)>>
        /\ \A i \in {1, 2, 4, 5, 6} : DefaultSettings.m[i][2] = JStr(<<>>)

\* a stored object with the single member whisperUrl became the settings:
\* they have no whisperModel
PartialSettingsLoaded ==
    /\ stored = [present |-> TRUE, text |->
          <<"{", QUOTE, "w", "h", "i", "s", "p", "e", "r", "U", "r", "l",
            QUOTE, ":", QUOTE, "x", QUOTE, "}">>]
    /\ settings = JObj(<<<<SettingsKeys[1], JStr(<<"x">>)>>>>)
    /\ GetProp(settings, SettingsKeys[3]).v = JUndefined

(***************************************************************************)
(* The Index page: uploader, transcript editor, summary panel, settings    *)
(* dialog and the requests they have in flight.  A step is one event       *)
(* handler or one continuation after an await, run to completion; shown    *)
(* holds the toasts of the last step, settled the request that returned in *)
(* it, unhandled counts the errors that left a handler uncaught.           *)
(***************************************************************************)
MaxInFlight == 3

\* the files the user can pick: 1 MB, exactly the limit, one byte more
Files ==
    {[name |-> "a.wav", size |-> 1024 * 1024],
     [name |-> "b.wav", size |-> MaxUploadMb * 1024 * 1024],
     [name |-> "c.wav", size |-> MaxUploadMb * 1024 * 1024 + 1]}

\* result.transcript of a transcription of the file
TranscriptOf(file) == "transcript of " \o file.name

\* the number of requests of a kind in flight
InFlight(kind) ==
    LET S == {r \in BagToSet(inflight) : r.kind = kind}
    IN BagCardinality([r \in S |-> inflight[r]])

\* the language codes of the uploader's select (two of the twelve)
LANGUAGES == {"en", "de"}

\* onTranscribe(language, diarization) reaches handleTranscribe(language),
\* which calls api.transcribe(audioFile, language || undefined): the second
\* argument is not taken and the diarization parameter stays undefined
HandleTranscribeArgs(l, d) ==
    [language |-> IF l = "" THEN "undefined" ELSE l, diarization |-> "undefined"]

\* ApiClient.transcribe: the multipart form it posts to /api/transcribe
TranscribeForm(file, args) ==
    <<[name |-> "file", value |-> file]>>
    \o (IF args.language \notin {"", "undefined"}
        THEN <<[name |-> "language", value |-> args.language]>> ELSE <<>>)
    \o (IF args.diarization = "true"
        THEN <<[name |-> "diarization", value |-> "true"]>> ELSE <<>>)

FileTooLargeNoLimit(file) == FALSE

\* const sizeMb = file.size / (1024 * 1024); sizeMb > MAX_UPLOAD_MB
FileTooLarge(file) == file.size > MaxUploadMb * (1024 * 1024)

OnFailureRethrow(title) == [toasts |-> <<>>, escaped |-> 1]

\* catch (error) { console.error(...); toast({ title, variant: "destructive" }) }
OnFailure(title) == [toasts |-> <<[title |-> title, variant |-> "destructive"]>>, escaped |-> 0]

NotConnectedOnlyFalse == isConnected = "false"

\* !isConnected, of a state that is null, false or true
NotConnected == isConnected # "true"

TranscribeEnabledWhileProcessing == audioFile # NoFile

\* {hasFile && ... <Button disabled={isProcessing}>
TranscribeEnabled == audioFile # NoFile /\ ~isTranscribing

\* <Button disabled={!transcript || isLoading}> of the summary panel
GenerateEnabled == transcript # "" /\ ~isSummarizing

\* <Button disabled={!transcript || isCleaning}> of the transcript editor
CleanEnabled == transcript # "" /\ ~isCleaning

\* the textarea replaces the skeleton unless isLoading
TextareaShown == ~isTranscribing

SaveEnabledWhenClosed == ~saving /\ ~loading

\* <Button disabled={saving || loading}> of the dialog
SaveEnabled == open /\ ~saving /\ ~loading

\* the page after its first render and its mount effect: checkConnection
\* has called healthCheck
InitPage ==
    /\ PageConstructed /\ RecorderConstructed
    /\ inflight = SetToBag({[kind |-> "healthCheck", file |-> NoFile, form |-> <<>>]})
    /\ ApiIdle
    /\ abandoned = FALSE
    /\ StoreConstructed

\* checkConnection after await api.healthCheck()
CheckConnectionReturns ==
    /\ \E r \in BagToSet(inflight) :
         /\ r.kind = "healthCheck"
         /\ inflight' = inflight (-) SetToBag({r})
    /\ \E connected \in BOOLEAN :
         /\ isConnected' = IF connected THEN "true" ELSE "false"
         /\ shown' = IF connected THEN <<>>
                     ELSE <<[title |-> "Backend not available", variant |-> "destructive"]>>
    /\ settled' = [kind |-> "healthCheck", ok |-> TRUE]
    /\ UNCHANGED <<audioFile, transcript, summary, isTranscribing, isSummarizing,
                   isCleaning, uploadedFile, open, loading, saving,
                   localSettings, unhandled>>
    /\ UNCHANGED <<apiVars, callerVars, storeVars, recorderVars>>
    /\ UNCHANGED <<language, diarization>>

\* AudioRecorder.handleFileUpload with Index.handleFileSelect
SelectFile ==
    /\ \E file \in Files :
         IF FileTooLarge(file)
         THEN /\ shown' = <<[title |-> "File too large", variant |-> "destructive"]>>
              /\ uploadedFile' = NoFile
              /\ UNCHANGED <<audioFile, transcript, summary>>
         ELSE /\ audioFile' = file
              /\ transcript' = ""
              /\ summary' = ""
              /\ uploadedFile' = file
              /\ shown' = <<>>
    /\ settled' = [kind |-> "none", ok |-> TRUE]
    /\ UNCHANGED <<isConnected, isTranscribing, isSummarizing, isCleaning, open,
                   loading, saving, localSettings, inflight, unhandled>>
    /\ UNCHANGED <<apiVars, callerVars, storeVars, recorderVars>>
    /\ UNCHANGED <<language, diarization>>

\* the Transcribe button: Index.handleTranscribe up to its await
ClickTranscribe ==
    /\ TranscribeEnabled
    /\ BagCardinality(inflight) < MaxInFlight
    /\ IF audioFile = NoFile
       THEN /\ shown' = <<[title |-> "No file selected", variant |-> "destructive"]>>
            /\ UNCHANGED <<isTranscribing, inflight>>
       ELSE IF NotConnected
            THEN /\ shown' = <<[title |-> "Backend not connected", variant |-> "destructive"]>>
                 /\ UNCHANGED <<isTranscribing, inflight>>
            ELSE /\ isTranscribing' = TRUE
                 /\ inflight' = inflight (+) SetToBag({
                        [kind |-> "transcribe", file |-> audioFile,
                         form |-> TranscribeForm(audioFile,
                                    HandleTranscribeArgs(language, diarization))]})
                 /\ shown' = <<>>
    /\ settled' = [kind |-> "none", ok |-> TRUE]
    /\ UNCHANGED <<isConnected, audioFile, transcript, summary, isSummarizing,
                   isCleaning, uploadedFile, open, loading, saving,
                   localSettings, unhandled>>
    /\ UNCHANGED <<apiVars, callerVars, storeVars, recorderVars>>
    /\ UNCHANGED <<language, diarization>>

\* handleTranscribe after await api.transcribe(...)
TranscribeReturns ==
    /\ \E r \in BagToSet(inflight) :
         /\ r.kind = "transcribe"
         /\ inflight' = inflight (-) SetToBag({r})
         /\ \E ok \in BOOLEAN :
              /\ settled' = [kind |-> "transcribe", ok |-> ok]
              /\ IF ok
                 THEN /\ transcript' = TranscriptOf(r.file)
                      /\ shown' = <<[title |-> "Transcription complete", variant |-> "default"]>>
                      /\ unhandled' = unhandled
                 ELSE /\ transcript' = transcript
                      /\ shown' = OnFailure("Transcription failed").toasts
                      /\ unhandled' = unhandled + OnFailure("Transcription failed").escaped
    /\ isTranscribing' = FALSE
    /\ UNCHANGED <<isConnected, audioFile, summary, isSummarizing, isCleaning,
                   uploadedFile, open, loading, saving, localSettings>>
    /\ UNCHANGED <<apiVars, callerVars, storeVars, recorderVars>>
    /\ UNCHANGED <<language, diarization>>

\* the Generate button: Index.handleGenerateSummary up to its await
ClickGenerate ==
    /\ GenerateEnabled
    /\ BagCardinality(inflight) < MaxInFlight
    /\ IF transcript = ""
       THEN /\ shown' = <<[title |-> "No transcript", variant |-> "destructive"]>>
            /\ UNCHANGED <<isSummarizing, inflight>>
       ELSE IF NotConnected
            THEN /\ shown' = <<[title |-> "Backend not connected", variant |-> "destructive"]>>
                 /\ UNCHANGED <<isSummarizing, inflight>>
            ELSE /\ isSummarizing' = TRUE
                 /\ inflight' = inflight (+) SetToBag({[kind |-> "summarize", file |-> NoFile, form |-> <<>>]})
                 /\ shown' = <<>>
    /\ settled' = [kind |-> "none", ok |-> TRUE]
    /\ UNCHANGED <<isConnected, audioFile, transcript, summary, isTranscribing,
                   isCleaning, uploadedFile, open, loading, saving,
                   localSettings, unhandled>>
    /\ UNCHANGED <<apiVars, callerVars, storeVars, recorderVars>>
    /\ UNCHANGED <<language, diarization>>

\* handleGenerateSummary after await api.summarize(...)
SummarizeReturns ==
    /\ \E r \in BagToSet(inflight) :
         /\ r.kind = "summarize"
         /\ inflight' = inflight (-) SetToBag({r})
    /\ \E ok \in BOOLEAN :
         /\ settled' = [kind |-> "summarize", ok |-> ok]
         /\ IF ok
            THEN /\ summary' = "summary"
                 /\ shown' = <<[title |-> "Summary generated", variant |-> "default"]>>
                 /\ unhandled' = unhandled
            ELSE /\ summary' = summary
                 /\ shown' = OnFailure("Summarization failed").toasts
                 /\ unhandled' = unhandled + OnFailure("Summarization failed").escaped
    /\ isSummarizing' = FALSE
    /\ UNCHANGED <<isConnected, audioFile, transcript, isTranscribing, isCleaning,
                   uploadedFile, open, loading, saving, localSettings>>
    /\ UNCHANGED <<apiVars, callerVars, storeVars, recorderVars>>
    /\ UNCHANGED <<language, diarization>>

\* the Clean button: Index.handleCleanTranscript up to its await
ClickClean ==
    /\ CleanEnabled
    /\ BagCardinality(inflight) < MaxInFlight
    /\ IF transcript = ""
       THEN /\ shown' = <<[title |-> "No transcript", variant |-> "destructive"]>>
            /\ UNCHANGED <<isCleaning, inflight>>
       ELSE IF NotConnected
            THEN /\ shown' = <<[title |-> "Backend not connected", variant |-> "destructive"]>>
                 /\ UNCHANGED <<isCleaning, inflight>>
            ELSE /\ isCleaning' = TRUE
                 /\ inflight' = inflight (+) SetToBag({[kind |-> "cleanTranscript", file |-> NoFile, form |-> <<>>]})
                 /\ shown' = <<>>
    /\ settled' = [kind |-> "none", ok |-> TRUE]
    /\ UNCHANGED <<isConnected, audioFile, transcript, summary, isTranscribing,
                   isSummarizing, uploadedFile, open, loading, saving,
                   localSettings, unhandled>>
    /\ UNCHANGED <<apiVars, callerVars, storeVars, recorderVars>>
    /\ UNCHANGED <<language, diarization>>

\* handleCleanTranscript after await api.cleanTranscript(transcript)
CleanReturns ==
    /\ \E r \in BagToSet(inflight) :
         /\ r.kind = "cleanTranscript"
         /\ inflight' = inflight (-) SetToBag({r})
    /\ \E ok \in BOOLEAN :
         /\ settled' = [kind |-> "cleanTranscript", ok |-> ok]
         /\ IF ok
            THEN /\ transcript' = "cleaned transcript"
                 /\ shown' = <<[title |-> "Transcript cleaned", variant |-> "default"]>>
                 /\ unhandled' = unhandled
            ELSE /\ transcript' = transcript
                 /\ shown' = OnFailure("Cleanup failed").toasts
                 /\ unhandled' = unhandled + OnFailure("Cleanup failed").escaped
    /\ isCleaning' = FALSE
    /\ UNCHANGED <<isConnected, audioFile, summary, isTranscribing, isSummarizing,
                   uploadedFile, open, loading, saving, localSettings>>
    /\ UNCHANGED <<apiVars, callerVars, storeVars, recorderVars>>
    /\ UNCHANGED <<language, diarization>>

\* onChange of the textarea: setTranscript(e.target.value)
EditTranscript ==
    /\ TextareaShown
    /\ \E text \in {"", "typed transcript"} :
         /\ text # transcript
         /\ transcript' = text
    /\ shown' = <<>>
    /\ settled' = [kind |-> "none", ok |-> TRUE]
    /\ UNCHANGED <<isConnected, audioFile, summary, isTranscribing, isSummarizing,
                   isCleaning, uploadedFile, open, loading, saving,
                   localSettings, inflight, unhandled>>
    /\ UNCHANGED <<apiVars, callerVars, storeVars, recorderVars>>
    /\ UNCHANGED <<language, diarization>>

\* the dialog opens and its effect runs loadSettings up to its await
OpenDialog ==
    /\ ~open
    /\ BagCardinality(inflight) < MaxInFlight
    /\ open' = TRUE
    /\ loading' = TRUE
    /\ inflight' = inflight (+) SetToBag({[kind |-> "getSettings", file |-> NoFile, form |-> <<>>]})
    /\ shown' = <<>>
    /\ settled' = [kind |-> "none", ok |-> TRUE]
    /\ UNCHANGED <<isConnected, audioFile, transcript, summary, isTranscribing,
                   isSummarizing, isCleaning, uploadedFile, saving,
                   localSettings, unhandled>>
    /\ UNCHANGED <<apiVars, callerVars, storeVars, recorderVars>>
    /\ UNCHANGED <<language, diarization>>

\* Cancel, or the dialog dismissed: setOpen(false)
CloseDialog ==
    /\ open
    /\ open' = FALSE
    /\ shown' = <<>>
    /\ settled' = [kind |-> "none", ok |-> TRUE]
    /\ UNCHANGED <<isConnected, audioFile, transcript, summary, isTranscribing,
                   isSummarizing, isCleaning, uploadedFile, loading, saving,
                   localSettings, inflight, unhandled>>
    /\ UNCHANGED <<apiVars, callerVars, storeVars, recorderVars>>
    /\ UNCHANGED <<language, diarization>>

\* loadSettings after await api.getSettings()
GetSettingsReturns ==
    /\ \E r \in BagToSet(inflight) :
         /\ r.kind = "getSettings"
         /\ inflight' = inflight (-) SetToBag({r})
    /\ \E ok \in BOOLEAN :
         /\ settled' = [kind |-> "getSettings", ok |-> ok]
         /\ IF ok
            THEN /\ localSettings' = "server"
                 /\ shown' = <<>>
                 /\ unhandled' = unhandled
            ELSE /\ localSettings' = localSettings
                 /\ shown' = OnFailure("Connection Error").toasts
                 /\ unhandled' = unhandled + OnFailure("Connection Error").escaped
    /\ loading' = FALSE
    /\ UNCHANGED <<isConnected, audioFile, transcript, summary, isTranscribing,
                   isSummarizing, isCleaning, uploadedFile, open, saving>>
    /\ UNCHANGED <<apiVars, callerVars, storeVars, recorderVars>>
    /\ UNCHANGED <<language, diarization>>

\* updateField(field, value) from an input of the dialog
EditSettings ==
    /\ open /\ ~loading
    /\ localSettings # "edited"
    /\ localSettings' = "edited"
    /\ shown' = <<>>
    /\ settled' = [kind |-> "none", ok |-> TRUE]
    /\ UNCHANGED <<isConnected, audioFile, transcript, summary, isTranscribing,
                   isSummarizing, isCleaning, uploadedFile, open, loading,
                   saving, inflight, unhandled>>
    /\ UNCHANGED <<apiVars, callerVars, storeVars, recorderVars>>
    /\ UNCHANGED <<language, diarization>>

\* the Save button: handleSave up to its await
ClickSave ==
    /\ SaveEnabled
    /\ BagCardinality(inflight) < MaxInFlight
    /\ saving' = TRUE
    /\ inflight' = inflight (+) SetToBag({[kind |-> "updateSettings", file |-> NoFile, form |-> <<>>]})
    /\ shown' = <<>>
    /\ settled' = [kind |-> "none", ok |-> TRUE]
    /\ UNCHANGED <<isConnected, audioFile, transcript, summary, isTranscribing,
                   isSummarizing, isCleaning, uploadedFile, open, loading,
                   localSettings, unhandled>>
    /\ UNCHANGED <<apiVars, callerVars, storeVars, recorderVars>>
    /\ UNCHANGED <<language, diarization>>

\* handleSave after await api.updateSettings(localSettings); on success
\* onSettingsChange runs checkConnection up to its await
UpdateSettingsReturns ==
    /\ \E r \in BagToSet(inflight) :
         /\ r.kind = "updateSettings"
         /\ \E ok \in BOOLEAN :
              /\ settled' = [kind |-> "updateSettings", ok |-> ok]
              /\ IF ok
                 THEN /\ inflight' = (inflight (-) SetToBag({r}))
                                        (+) SetToBag({[kind |-> "healthCheck", file |-> NoFile, form |-> <<>>]})
                      /\ open' = FALSE
                      /\ shown' = <<[title |-> "Settings saved", variant |-> "default"]>>
                      /\ unhandled' = unhandled
                 ELSE /\ inflight' = inflight (-) SetToBag({r})
                      /\ open' = open
                      /\ shown' = OnFailure("Save failed").toasts
                      /\ unhandled' = unhandled + OnFailure("Save failed").escaped
    /\ saving' = FALSE
    /\ UNCHANGED <<isConnected, audioFile, transcript, summary, isTranscribing,
                   isSummarizing, isCleaning, uploadedFile, loading,
                   localSettings>>
    /\ UNCHANGED <<apiVars, callerVars, storeVars, recorderVars>>
    /\ UNCHANGED <<language, diarization>>

\* the language select of the uploader: setLanguage
SetLanguage ==
    /\ audioFile # NoFile
    /\ \E code \in LANGUAGES :
         /\ code # language
         /\ language' = code
    /\ shown' = <<>>
    /\ settled' = [kind |-> "none", ok |-> TRUE]
    /\ UNCHANGED <<isConnected, audioFile, transcript, summary, isTranscribing,
                   isSummarizing, isCleaning, uploadedFile, open, loading,
                   saving, localSettings, inflight, unhandled, diarization>>
    /\ UNCHANGED <<apiVars, callerVars, storeVars, recorderVars>>

\* the diarization checkbox of the uploader: setDiarization(Boolean(v))
SetDiarization ==
    /\ audioFile # NoFile
    /\ diarization' = ~diarization
    /\ shown' = <<>>
    /\ settled' = [kind |-> "none", ok |-> TRUE]
    /\ UNCHANGED <<isConnected, audioFile, transcript, summary, isTranscribing,
                   isSummarizing, isCleaning, uploadedFile, open, loading,
                   saving, localSettings, inflight, unhandled, language>>
    /\ UNCHANGED <<apiVars, callerVars, storeVars, recorderVars>>

NextPage ==
    \/ CheckConnectionReturns
    \/ SelectFile
    \/ ClickTranscribe
    \/ TranscribeReturns
    \/ ClickGenerate
    \/ SummarizeReturns
    \/ ClickClean
    \/ CleanReturns
    \/ EditTranscript
    \/ OpenDialog
    \/ CloseDialog
    \/ GetSettingsReturns
    \/ EditSettings
    \/ ClickSave
    \/ UpdateSettingsReturns

SpecPage == InitPage /\ [][NextPage]_vars

\* the uploader alone: a file, its language and diarization controls, and
\* the transcriptions started from it
NextUpload ==
    \/ CheckConnectionReturns
    \/ SelectFile
    \/ SetLanguage
    \/ SetDiarization
    \/ ClickTranscribe
    \/ TranscribeReturns

SpecUpload == InitPage /\ [][NextUpload]_vars

(***************************************************************************)
(* Properties of the Index page.                                           *)
(***************************************************************************)
\* the file is larger than the configured maximum upload size
ExceedsLimit(file) == file.size > MaxUploadMb * 1024 * 1024

\* C11: no file larger than the configured maximum upload size is ever the
\* page's audioFile or the file of a transcribe request.
OversizedNeverAccepted ==
    /\ ~ExceedsLimit(audioFile)
    /\ \A r \in BagToSet(inflight) : r.kind = "transcribe" => ~ExceedsLimit(r.file)

\* the file of one byte over the limit was picked after b.wav and refused
\* (the uploader shows no file), then Transcribe was clicked
OversizedRefusedThenTranscribe ==
    /\ audioFile.name = "b.wav" /\ uploadedFile = NoFile
    /\ InFlight("transcribe") = 1

\* C16: at most one transcription request and at most one summarization
\* request are in flight at any time, and while one is in flight its
\* in-progress flag is set.
AtMostOnePerKind ==
    /\ InFlight("transcribe") <= 1
    /\ InFlight("summarize") <= 1
    /\ InFlight("transcribe") = 1 => isTranscribing
    /\ InFlight("summarize") = 1 => isSummarizing

\* a transcription is in flight while a file is selected and the backend
\* connected: only the flag keeps a second one from being started
SecondTranscribeBlocked ==
    /\ InFlight("transcribe") = 1 /\ isTranscribing
    /\ audioFile # NoFile /\ isConnected = "true"
    /\ BagCardinality(inflight) = 1

\* C17: at most one request among transcription and summarization is in
\* flight at any time.
OneAmongTranscribeAndSummarize ==
    InFlight("transcribe") + InFlight("summarize") <= 1

FailedKinds == {"transcribe", "summarize", "cleanTranscript", "getSettings", "updateSettings"}

\* C18: a step in which a request of a backend-calling action fails shows
\* exactly one toast, a destructive one, lets no error escape, and leaves
\* Transcript and Summary as they were.
FailuresAreNotified ==
    [][(settled'.kind \in FailedKinds /\ ~settled'.ok) =>
          /\ Len(shown') = 1 /\ shown'[1].variant = "destructive"
          /\ unhandled' = unhandled
          /\ transcript' = transcript /\ summary' = summary]_vars

\* a transcription has just failed while a typed transcript and a summary
\* were on the page
FailedTranscribeKeepsTexts ==
    /\ settled = [kind |-> "transcribe", ok |-> FALSE]
    /\ transcript = "typed transcript" /\ summary = "summary"
    /\ shown = <<[title |-> "Transcription failed", variant |-> "destructive"]>>

TranscriptWriters == InFlight("transcribe") + InFlight("cleanTranscript")

\* C19: while a transcription or clean-transcript request is in flight,
\* Transcript is written only by the return of that one request.
TranscriptSingleWriter ==
    [][(TranscriptWriters > 0 /\ transcript' # transcript) =>
          /\ TranscriptWriters = 1
          /\ settled'.kind \in {"transcribe", "cleanTranscript"}]_vars

\* C21: an updateSettings request is started only by Save in the open panel
\* (never by an edit or by closing the panel); every opening of the panel
\* starts a getSettings request; a successful getSettings replaces the local
\* values; a failed save leaves the panel and the local values as they were.
SettingsLifecycle ==
    [][/\ (InFlight("updateSettings")' > InFlight("updateSettings") =>
              open /\ open' /\ ~saving /\ saving' /\ localSettings' = localSettings)
       /\ (localSettings' # localSettings \/ open' # open =>
              InFlight("updateSettings")' <= InFlight("updateSettings"))
       /\ (~open /\ open' => InFlight("getSettings")' = InFlight("getSettings") + 1)
       /\ (settled'.kind = "getSettings" /\ settled'.ok => localSettings' = "server")
       /\ (settled'.kind = "updateSettings" /\ ~settled'.ok =>
              open' = open /\ localSettings' = localSettings)]_vars

\* a save of edited values has just failed and the panel is still open
FailedSaveKeepsEdits ==
    /\ settled = [kind |-> "updateSettings", ok |-> FALSE]
    /\ open /\ localSettings = "edited" /\ ~saving

\* the multipart form the interface specification gives for a file, a
\* language code and the state of the diarization box
SpecifiedForm(file, code, checked) ==
    <<[name |-> "file", value |-> file]>>
    \o (IF code # "" THEN <<[name |-> "language", value |-> code]>> ELSE <<>>)
    \o (IF checked THEN <<[name |-> "diarization", value |-> "true"]>> ELSE <<>>)

\* C22: a transcribe request started from the uploader carries the selected
\* file, the chosen language code unless it is empty, and diarization="true"
\* exactly when the box is checked.
TranscribeCarriesSelection ==
    [][InFlight("transcribe")' > InFlight("transcribe") =>
          \E r \in BagToSet(inflight') :
              /\ r.kind = "transcribe"
              /\ r.form = SpecifiedForm(audioFile, language, diarization)]_vars

(***************************************************************************)
(* Properties of the rolling buffer of transcribeStream.                   *)
(***************************************************************************)
\* the text decoded from the bytes read so far
ReceivedText == DecodeBytes(<<>>, SubSeq(stream, 1, pos), TRUE).text

\* the invocations of the first k of the blocks, each dispatched once
RECURSIVE EmittedUpTo(_, _)
EmittedUpTo(blocks, k) ==
    IF k = 0 THEN <<>>
    ELSE EmittedUpTo(blocks, k - 1) \o EmitEvent(blocks[k], handlers, k).calls

\* C23: after each read has been processed the buffer holds no delimiter,
\* every complete block of the text received so far was extracted and
\* dispatched exactly once, in order, and the buffer is exactly the text
\* received after the last extracted delimiter.
RollingBuffer ==
    (IsStream /\ pc \in {"reading", "resolved"}) =>
        LET blocks == BlocksOf(ReceivedText)
        IN /\ IndexOf(buffer, DELIM) = -1
           /\ \A i \in 1..(Len(buffer) - 1) : ~(buffer[i] = NL /\ buffer[i + 1] = NL)
           /\ nblocks = Len(blocks)
           /\ calls = EmittedUpTo(blocks, Len(blocks))
           /\ ReceivedText = StreamText(blocks, TRUE) \o buffer

\* after a block was extracted and dispatched, a read ended on a single
\* newline: the buffer keeps the partial block with that newline
HalfDelimiterBuffered ==
    /\ IsStream /\ pc = "reading"
    /\ nblocks >= 1 /\ calls # <<>>
    /\ Len(buffer) >= 2 /\ buffer[Len(buffer)] = NL

\* C24: when the stream has ended, only blocks that were followed by a
\* delimiter have been delivered: the text left in the buffer is dispatched
\* to no handler, whatever it holds.
UnterminatedTailDiscarded ==
    (IsStream /\ pc = "resolved") =>
        /\ \A i \in 1..Len(calls) : calls[i].blk <= Len(StreamBlocks)
        /\ Len(calls) = Len(EmittedUpTo(StreamBlocks, Len(StreamBlocks)))
        /\ IndexOf(buffer, DELIM) = -1

\* the stream ended on a well-formed complete or error block without its
\* delimiter, with every handler supplied, and no terminal handler ran
TerminalBlockLeftInBuffer ==
    /\ IsStream /\ pc = "resolved" /\ handlers = AllHandlers
    /\ BlockFields(buffer).event \in {EvComplete, EvError}
    /\ JSONParse(BlockFields(buffer).data).ok
    /\ \A i \in 1..Len(calls) : calls[i].h \notin {"onComplete", "onError"}

\* C25: an exception of a caller-supplied handler does not leave
\* transcribeStream, and every later block that selects a supplied handler
\* is still dispatched.
HandlerExceptionSwallowed ==
    (IsStream /\ GoodResponse) =>
        /\ thrown = <<>> /\ pc # "rejected"
        /\ \A i \in 1..Len(calls) :
              handlers[calls[i].h] = "throws" =>
                  \A k \in (calls[i].blk + 1)..nblocks :
                      (/\ NotDropped(StreamBlocks[k])
                       /\ handlers[HandlerFor(NameOf(StreamBlocks[k]))] # "absent")
                      => \E j \in (i + 1)..Len(calls) : calls[j].blk = k

\* a handler threw, a handler ran for a later block, and the call resolved
DispatchAfterThrowingHandler ==
    /\ IsStream /\ pc = "resolved" /\ thrown = <<>>
    /\ \E i, j \in 1..Len(calls) :
          /\ handlers[calls[i].h] = "throws"
          /\ calls[j].blk > calls[i].blk

(***************************************************************************)
(* Further properties of the Index page and its uploader.                  *)
(***************************************************************************)
\* C26: a transcript written by a transcription is the transcript of the
\* currently selected audioFile: no file is displayed together with the
\* transcript of another file.
TranscriptOfSelectedFile ==
    \A f \in Files : transcript = TranscriptOf(f) => audioFile = f

\* C27: the file shown by the uploader and the page's audioFile agree:
\* both are absent (and the Transcribe control, shown when audioFile is
\* present, is hidden) or both are the same file.
UploaderAgreesWithPage ==
    \/ uploadedFile = NoFile /\ audioFile = NoFile
    \/ uploadedFile # NoFile /\ uploadedFile = audioFile

\* C28: isConnected changes only when a health check completes; while it
\* is not true no transcribe, summarize or clean-transcript request is
\* started, and the step that shows "Backend not connected" sends nothing.
RequestsNeedConnection ==
    [][/\ (isConnected' # isConnected => settled'.kind = "healthCheck")
       /\ (isConnected # "true" =>
              /\ InFlight("transcribe")' <= InFlight("transcribe")
              /\ InFlight("summarize")' <= InFlight("summarize")
              /\ InFlight("cleanTranscript")' <= InFlight("cleanTranscript"))
       /\ ((shown' # <<>> /\ shown'[1].title = "Backend not connected") =>
              /\ isConnected # "true"
              /\ inflight' = inflight
              /\ <<isTranscribing', isSummarizing', isCleaning'>>
                     = <<isTranscribing, isSummarizing, isCleaning>>)]_vars

\* Transcribe was clicked on a selected file before the first health check
\* completed: the notification is shown and only that health check is in
\* flight
TranscribeRefusedWhileUnknown ==
    /\ isConnected = "null" /\ audioFile # NoFile
    /\ shown = <<[title |-> "Backend not connected", variant |-> "destructive"]>>
    /\ InFlight("healthCheck") = 1 /\ BagCardinality(inflight) = 1

\* C29: each in-progress flag is true exactly while a request of its
\* action is in flight, from its start until it settles.
FlagsTrackRequests ==
    /\ isTranscribing <=> InFlight("transcribe") > 0
    /\ isSummarizing <=> InFlight("summarize") > 0
    /\ isCleaning <=> InFlight("cleanTranscript") > 0
    /\ loading <=> InFlight("getSettings") > 0
    /\ saving <=> InFlight("updateSettings") > 0

(***************************************************************************)
(* The recording AudioRecorder.  A MediaRecorder is "recording" from       *)
(* start(), "stopping" from stop() until its stop event is handled, then   *)
(* "done"; mediaRecorderRef and timerRef hold the position of an object in *)
(* mediaRecorders and intervals, 0 for null.                               *)
(***************************************************************************)
\* new File([blob], `recording-${Date.now()}.${extension}`)
RecordedFile == [name |-> "recording.webm", size |-> 1024]

InitRecorder ==
    /\ PageConstructed /\ RecorderConstructed /\ inflight = EmptyBag
    /\ ApiIdle
    /\ abandoned = FALSE
    /\ StoreConstructed

\* the record button while it shows the microphone: startRecording up to
\* await navigator.mediaDevices.getUserMedia(...)
StartClick ==
    /\ ~isRecording /\ ~isTranscribing
    /\ startClicks < MaxStarts
    /\ startClicks' = startClicks + 1
    /\ permissionRequests' = permissionRequests + 1
    /\ UNCHANGED <<isRecording, recordingTime, mediaRecorderRef, timerRef,
                   mediaRecorders, intervals, stopped, delivered>>
    /\ UNCHANGED <<apiVars, callerVars, pageVars, storeVars>>

\* startRecording after getUserMedia resolved: a new MediaRecorder is
\* started and a new interval timer is set, the refs point to them
PermissionGranted ==
    /\ permissionRequests > 0
    /\ permissionRequests' = permissionRequests - 1
    /\ mediaRecorders' = Append(mediaRecorders, "recording")
    /\ mediaRecorderRef' = Len(mediaRecorders) + 1
    /\ isRecording' = TRUE
    /\ recordingTime' = 0
    /\ intervals' = Append(intervals, TRUE)
    /\ timerRef' = Len(intervals) + 1
    /\ UNCHANGED <<startClicks, stopped, delivered>>
    /\ UNCHANGED <<apiVars, callerVars, pageVars, storeVars>>

\* startRecording after getUserMedia rejected: the catch logs the error
PermissionDenied ==
    /\ permissionRequests > 0
    /\ permissionRequests' = permissionRequests - 1
    /\ UNCHANGED <<isRecording, recordingTime, mediaRecorderRef, timerRef,
                   mediaRecorders, intervals, startClicks, stopped, delivered>>
    /\ UNCHANGED <<apiVars, callerVars, pageVars, storeVars>>

\* the record button while it shows the square: stopRecording
StopClick ==
    /\ isRecording /\ ~isTranscribing
    /\ IF mediaRecorderRef # 0 /\ isRecording
       THEN /\ mediaRecorders' = [mediaRecorders EXCEPT ![mediaRecorderRef] = "stopping"]
            /\ stopped' = stopped + 1
            /\ isRecording' = FALSE
            /\ IF timerRef # 0
               THEN /\ intervals' = [intervals EXCEPT ![timerRef] = FALSE]
                    /\ timerRef' = 0
               ELSE UNCHANGED <<intervals, timerRef>>
       ELSE UNCHANGED <<mediaRecorders, stopped, isRecording, intervals, timerRef>>
    /\ UNCHANGED <<recordingTime, mediaRecorderRef, permissionRequests,
                   startClicks, delivered>>
    /\ UNCHANGED <<apiVars, callerVars, pageVars, storeVars>>

\* mediaRecorder.onstop: setUploadedFile(file) and onFileSelect(file), which
\* is Index.handleFileSelect
OnStop ==
    /\ \E i \in 1..Len(mediaRecorders) :
         /\ mediaRecorders[i] = "stopping"
         /\ mediaRecorders' = [mediaRecorders EXCEPT ![i] = "done"]
    /\ delivered' = delivered + 1
    /\ uploadedFile' = RecordedFile
    /\ IF FileTooLarge(RecordedFile)
       THEN /\ shown' = <<[title |-> "File too large", variant |-> "destructive"]>>
            /\ UNCHANGED <<audioFile, transcript, summary>>
       ELSE /\ audioFile' = RecordedFile
            /\ transcript' = ""
            /\ summary' = ""
            /\ shown' = <<>>
    /\ settled' = [kind |-> "none", ok |-> TRUE]
    /\ UNCHANGED <<isConnected, isTranscribing, isSummarizing, isCleaning, open,
                   loading, saving, localSettings, inflight, unhandled,
                   language, diarization>>
    /\ UNCHANGED <<isRecording, recordingTime, mediaRecorderRef, timerRef,
                   permissionRequests, intervals, startClicks, stopped>>
    /\ UNCHANGED <<apiVars, callerVars, storeVars>>

\* an interval timer fires: setRecordingTime(prev => prev + 1)
Tick ==
    /\ \E i \in 1..Len(intervals) : intervals[i]
    /\ recordingTime < MaxRecordingTime
    /\ recordingTime' = recordingTime + 1
    /\ UNCHANGED <<isRecording, mediaRecorderRef, timerRef, permissionRequests,
                   mediaRecorders, intervals, startClicks, stopped, delivered>>
    /\ UNCHANGED <<apiVars, callerVars, pageVars, storeVars>>

NextRecorder ==
    \/ StartClick
    \/ PermissionGranted
    \/ PermissionDenied
    \/ StopClick
    \/ OnStop
    \/ Tick

SpecRecorder == InitRecorder /\ [][NextRecorder]_vars

RunningTimers == {i \in 1..Len(intervals) : intervals[i]}

ActiveRecorders == {i \in 1..Len(mediaRecorders) : mediaRecorders[i] = "recording"}

\* C30: at most one interval timer and one recording MediaRecorder exist,
\* no timer runs while isRecording is false, and the files delivered to
\* onFileSelect are one for each stop, never more than the stops made.
OneTimerOneRecorder ==
    /\ Cardinality(RunningTimers) <= 1
    /\ Cardinality(ActiveRecorders) <= 1
    /\ ~isRecording => RunningTimers = {}
    /\ delivered <= stopped
    /\ delivered = Cardinality({i \in 1..Len(mediaRecorders) : mediaRecorders[i] = "done"})

====
